---------------------------- MODULE Spec2Model ----------------------------
(***************************************************************************)
(* A model of osquery_profiles.cpp: the `profiles` and `profile_items`     *)
(* table plugins, the fetch loop iterateProfiles / parseProfile that       *)
(* drives them, and the subprocess helper runCommand.                      *)
(*                                                                         *)
(* Text is modelled as a sequence of chunks.  A chunk is the diagnostic    *)
(* "profiles: the user could not be found", a line break, bytes that are   *)
(* no property list, or one complete property-list document.               *)
(***************************************************************************)
EXTENDS Integers, Sequences, FiniteSets

\* ------------------------------------------------------------------ bounds

\* Most profiles in one document of the tool.
MaxProfiles == 2
\* Most EQUALS constraints on `username` in one query.
MaxConstraints == 2

\* --------------------------------------------------------- program constants

\* sizeof(buffer) in runCommand.
BufSize == 1024
\* The descriptors the parent holds before its first runCommand: the three
\* standard streams.
InitialFds == {0, 1, 2}
\* size_t is unsigned: a negative value converted to it wraps to
\* SIZE_MAX + 1 + value.  TLC's integers are 32 bits wide, so SIZE_MAX
\* stands at the largest value they hold; what the code depends on (the
\* wrapped value is positive and beyond any string's max_size) is kept.
SIZE_MAX == 2147483647

ToSizeT(r) == IF r < 0 THEN SIZE_MAX + (1 + r) ELSE r

\* std::string::max_size(): below SIZE_MAX on every standard library.
StringMaxSize == SIZE_MAX \div 2

\* ------------------------------------------------------------------- trees

\* A key that a ptree node does not hold.
Absent == "<absent>"

\* ptree::get<std::string>(key, default)
Get(node, key, default) == IF node[key] = Absent THEN default ELSE node[key]

\* A payload node (an element of ProfileItems).  PayloadContent is a list of
\* key/value pairs, present or not.
Payload(type, ident, hasContent, content) ==
  [PayloadType |-> type, PayloadIdentifier |-> ident,
   PayloadDisplayName |-> Absent, PayloadDescription |-> Absent,
   PayloadOrganization |-> Absent,
   hasPayloadContent |-> hasContent, PayloadContent |-> content]

PayloadA == Payload("com.apple.wifi", "item.a", TRUE, << <<"Key", "Value">> >>)
PayloadB == Payload(Absent, Absent, FALSE, <<>>)

ItemLists == { <<>>, <<PayloadA>>, <<PayloadB, PayloadA>> }

\* A profile node.
Profile(ident, verif, removal, hasItems, items) ==
  [ProfileIdentifier |-> ident, ProfileDisplayName |-> Absent,
   ProfileDescription |-> Absent, ProfileOrganization |-> Absent,
   ProfileType |-> Absent,
   ProfileVerificationState |-> verif, ProfileRemovalDisallowed |-> removal,
   hasProfileItems |-> hasItems, ProfileItems |-> items]

VerificationStates == {Absent, "verified", "Verified"}
RemovalFlags == {Absent, "true", "True"}
Identifiers == {Absent, "p1", "p2"}

\* Profiles that differ in their flags, and profiles that differ in their
\* identifier and items.
FlagProfiles ==
  { Profile("p1", v, r, FALSE, <<>>) : v \in VerificationStates, r \in RemovalFlags }
ItemProfiles ==
  { Profile(i, Absent, Absent, TRUE, its) : i \in Identifiers, its \in ItemLists }
ProfileSet == FlagProfiles \cup ItemProfiles

\* ------------------------------------------------------------------- text

Chunk(kind, root, profiles) == [kind |-> kind, root |-> root, profiles |-> profiles]

NF == Chunk("nf", "", <<>>)
NL == Chunk("nl", "", <<>>)
JUNK == Chunk("junk", "", <<>>)
Doc(root, profiles) == Chunk("doc", root, profiles)

\* "profiles: the user could not be found"
Sentinel == <<NF>>

ComputerLevel == "_computerlevel"

\* The tool's answer for a user it does not know: the diagnostic and a line
\* break.
NotFoundOutput == <<NF, NL>>

\* boost::starts_with(text, prefix)
starts_with(text, prefix) ==
  /\ Len(text) >= Len(prefix)
  /\ SubSeq(text, 1, Len(prefix)) = prefix

\* osquery's parsePlistContent: succeeds on exactly one well-formed document.
\* Text before or after a document (a diagnostic, a second document: XML has
\* one root element) makes it fail.
parsePlistContent(text) ==
  IF Len(text) = 1 /\ text[1].kind = "doc"
  THEN [ok |-> TRUE, tree |-> text[1]]
  ELSE [ok |-> FALSE, tree |-> Doc("", <<>>)]

\* ----------------------------------------------------------------- status

Status(code, msg) == [code |-> code, msg |-> msg]
ok(status) == status.code = 0
NoStatus == Status(-1, "")

\* ------------------------------------------------------------ wait status

\* The status word waitpid stores: the exit code in bits 8..15 for a normal
\* exit, the signal number in bits 0..6 for a death by signal.
RawStatus(end) == IF end.how = "exit" THEN end.code * 256 ELSE end.code
WIFEXITED(status) == status % 128 = 0
WEXITSTATUS(status) == (status \div 256) % 256

\* How a child can end: exit(0), exit(2), the exit(100) after a failed
\* execv, or death by signal 9.
ChildEnds ==
  { [how |-> "exit", code |-> c] : c \in {0, 2, 100} }
    \cup { [how |-> "signal", code |-> 9] }

\* ExitStatus without its WIFEXITED test.
ExitStatusNoWifexited(status) ==
  IF WEXITSTATUS(status) # 0
  THEN Status(1, "subprocess errored")
  ELSE Status(0, "OK")

\* runCommand, lines 119-123.
ExitStatus(status) ==
  IF ~WIFEXITED(status) \/ WEXITSTATUS(status) # 0
  THEN Status(1, "subprocess errored")
  ELSE Status(0, "OK")

\* --------------------------------------------------------------- queries

Directory == {"alice", "bob"}
\* The user getuid() names.
CurrentUser == "alice"

Equals(expr) == [op |-> "EQUALS", expr |-> expr]
Like(expr) == [op |-> "LIKE", expr |-> expr]

ConstraintExprs == {"", "alice", "bob", "mallory"}

RECURSIVE SeqsUpTo(_, _)
SeqsUpTo(S, n) ==
  IF n = 0 THEN { <<>> }
  ELSE LET shorter == SeqsUpTo(S, n - 1)
       IN shorter \cup { Append(s, x) : s \in shorter, x \in S }

\* The constraint lists on `username` a query is drawn from.
ConstraintLists ==
  SeqsUpTo({ Equals(e) : e \in ConstraintExprs }, MaxConstraints)
    \cup { <<Like("a%")>> }

\* ConstraintList::notExistsOrMatches(expr)
notExistsOrMatches(constraints, expr) ==
  \/ constraints = <<>>
  \/ \A i \in 1..Len(constraints) :
       constraints[i].op = "EQUALS" /\ constraints[i].expr = expr

\* SQL::selectAllFrom("users", "username", EQUALS, expr)
selectUsersByName(expr) == IF expr \in Directory THEN <<expr>> ELSE <<>>

RECURSIVE usersOfConstraints(_)
usersOfConstraints(constraints) ==
  IF constraints = <<>> THEN <<>>
  ELSE (IF Head(constraints).op = "EQUALS"
        THEN selectUsersByName(Head(constraints).expr)
        ELSE <<>>) \o usersOfConstraints(Tail(constraints))

\* usersFromContext(context, all): the usernames of the rows it returns.
usersFromContext(constraints, all) ==
  IF \E i \in 1..Len(constraints) : constraints[i].op = "EQUALS"
  THEN usersOfConstraints(constraints)
  ELSE IF ~all THEN <<CurrentUser>>
  ELSE CHOOSE s \in [1..Cardinality(Directory) -> Directory] :
         \A u \in Directory : \E i \in DOMAIN s : s[i] = u

\* The sets of profile_identifier values a profile_items query asks for.
WantedSets == { {}, {"p1"}, {"p1", "p2"} }

\* ------------------------------------------------------------------ rows

\* osquery's INTEGER(x): the number as text.
INTEGER(n) == IF n = 1 THEN "1" ELSE "0"

\* profilesCallback with the two flags compared without regard to
\* case.
profilesCallbackIgnoreCase(username, profile) ==
  << [username |-> username,
      identifier |-> Get(profile, "ProfileIdentifier", ""),
      display_name |-> Get(profile, "ProfileDisplayName", ""),
      description |-> Get(profile, "ProfileDescription", ""),
      organization |-> Get(profile, "ProfileOrganization", ""),
      type |-> Get(profile, "ProfileType", ""),
      verified |->
        IF Get(profile, "ProfileVerificationState", "") \in {"verified", "Verified"}
        THEN INTEGER(1) ELSE INTEGER(0),
      removal_allowed |->
        IF Get(profile, "ProfileRemovalDisallowed", "") \in {"true", "True"}
        THEN INTEGER(0) ELSE INTEGER(1)] >>

\* The callback of ProfilesTablePlugin::generate: the rows one visit adds.
profilesCallback(username, profile) ==
  << [username |-> username,
      identifier |-> Get(profile, "ProfileIdentifier", ""),
      display_name |-> Get(profile, "ProfileDisplayName", ""),
      description |-> Get(profile, "ProfileDescription", ""),
      organization |-> Get(profile, "ProfileOrganization", ""),
      type |-> Get(profile, "ProfileType", ""),
      verified |->
        IF Get(profile, "ProfileVerificationState", "") = "verified"
        THEN INTEGER(1) ELSE INTEGER(0),
      removal_allowed |->
        IF Get(profile, "ProfileRemovalDisallowed", "") = "true"
        THEN INTEGER(0) ELSE INTEGER(1)] >>

\* pt::write_json(buf, tree, false): the compact rendering, one token per
\* brace, key, colon, value and comma, ended by a line break.
RECURSIVE jsonPairs(_)
jsonPairs(pairs) ==
  IF pairs = <<>> THEN <<>>
  ELSE <<pairs[1][1], ":", pairs[1][2]>>
         \o (IF Len(pairs) > 1 THEN <<",">> ELSE <<>>)
         \o jsonPairs(Tail(pairs))

write_json(tree) == <<"{">> \o jsonPairs(tree) \o <<"}", "\n">>

Whitespace == {" ", "\n", "\t"}

\* boost::algorithm::trim_right
RECURSIVE trim_right(_)
trim_right(text) ==
  IF text # <<>> /\ text[Len(text)] \in Whitespace
  THEN trim_right(SubSeq(text, 1, Len(text) - 1))
  ELSE text

\* The row of one payload (lines 348-369): `username` is not among the keys
\* it sets.
payloadRow(identifier, payload) ==
  [profile_identifier |-> identifier,
   type |-> Get(payload, "PayloadType", ""),
   identifier |-> Get(payload, "PayloadIdentifier", ""),
   display_name |-> Get(payload, "PayloadDisplayName", ""),
   description |-> Get(payload, "PayloadDescription", ""),
   organization |-> Get(payload, "PayloadOrganization", ""),
   content |-> trim_right(IF payload.hasPayloadContent
                          THEN write_json(payload.PayloadContent)
                          ELSE <<>>)]

payloadRows(identifier, payloads) ==
  [i \in 1..Len(payloads) |-> payloadRow(identifier, payloads[i])]

\* itemsCallback with an empty wanted set matching every profile.
itemsCallbackEmptyMatchesAll(wanted, username, profile) ==
  LET identifier == Get(profile, "ProfileIdentifier", "")
  IN IF wanted # {} /\ identifier \notin wanted THEN <<>>
     ELSE IF ~profile.hasProfileItems THEN <<>>
     ELSE payloadRows(identifier, profile.ProfileItems)

\* The callback of ProfileItemsTablePlugin::generate: the rows one visit
\* adds.
itemsCallback(wanted, username, profile) ==
  LET identifier == Get(profile, "ProfileIdentifier", "")
  IN IF identifier \notin wanted THEN <<>>
     ELSE IF ~profile.hasProfileItems THEN <<>>
     ELSE payloadRows(identifier, profile.ProfileItems)

callback(tbl, wanted, username, profile) ==
  IF tbl = "profiles"
  THEN profilesCallback(username, profile)
  ELSE itemsCallback(wanted, username, profile)

\* The rows the callback adds over the children of a root, in document order.
RECURSIVE visitAll(_, _, _, _)
visitAll(tbl, wanted, username, profiles) ==
  IF profiles = <<>> THEN <<>>
  ELSE callback(tbl, wanted, username, Head(profiles))
         \o visitAll(tbl, wanted, username, Tail(profiles))

\* parseProfile: its status and the profile nodes it hands to the callback.
parseProfile(text, username) ==
  IF starts_with(text, Sentinel)
  THEN [status |-> Status(1, "User not found"), profiles |-> <<>>]
  ELSE LET rootKey == IF username # "" THEN username ELSE ComputerLevel
           parsed == parsePlistContent(text)
       IN IF parsed.ok
          THEN IF parsed.tree.root # rootKey
               THEN [status |-> Status(1, "No profiles"), profiles |-> <<>>]
               ELSE [status |-> Status(0, "OK"), profiles |-> parsed.tree.profiles]
          ELSE [status |-> Status(0, "OK"), profiles |-> <<>>]

\* ------------------------------------------------------- the tool's output

ProfileSeqs == SeqsUpTo(ProfileSet, MaxProfiles)

\* The one profile a user's document holds: alice's is p1, bob's is p2.
UserProfile(username) ==
  Profile(IF username = "alice" THEN "p1" ELSE "p2", "verified", Absent,
          TRUE, <<PayloadA>>)

\* What /usr/bin/profiles may print for a scope ("" is the system scope).
ToolOutputs(username) ==
  IF username = ""
  THEN { <<Doc(ComputerLevel, ps)>> : ps \in ProfileSeqs }
         \cup { <<Doc("alice", <<UserProfile("alice")>>)>>, <<JUNK>> }
  ELSE { NotFoundOutput, <<JUNK>>,
         <<Doc(username, <<UserProfile(username)>>)>>,
         <<Doc(ComputerLevel, <<UserProfile(username)>>)>> }

\* What the child writes to the pipe: the tool's output, or nothing when
\* execv fails.
ChildOutputs(username) == ToolOutputs(username) \cup { <<>> }

\* ------------------------------------------------------------------ state

VARIABLES
  pc,             \* where the query stands: idle, fork, read, wait, returned,
                  \* done, threw
  table,          \* the table queried: "profiles" or "profile_items"
  wantedProfiles, \* generate's wantedProfiles
  system,         \* TRUE in the system-wide branch of iterateProfiles
  users,          \* the usernames to invoke the tool for, in order
  idx,            \* the position in users of the current invocation
  commandOutput,  \* iterateProfiles' commandOutput
  results,        \* generate's results
  fetchStatus,    \* what iterateProfiles returned
  fds,            \* the descriptors open in the parent
  pipefd,         \* runCommand's pipefd
  pipebuf,        \* what the child wrote and the parent has not read
  num,            \* runCommand's num
  runStatus,      \* what runCommand returned
  child,          \* the child of the current invocation
  visited,        \* history: the callback's calls, in order
  rowUser,        \* history: for each row of results, the username of the
                  \* callback call that added it
  captured,       \* history: what the current invocation read from its pipe
  runs            \* history: ok of each invocation the fetch has completed

vars == <<pc, table, wantedProfiles, system, users, idx, commandOutput,
          results, fetchStatus, fds, pipefd, pipebuf, num, runStatus, child,
          visited, rowUser, captured, runs>>

queryVars == <<table, wantedProfiles, system, users>>
fetchVars == <<idx, results, fetchStatus, visited, rowUser, runs>>

NoChild == [forked |-> FALSE, reaped |-> FALSE, how |-> "none", code |-> 0]

Init ==
  /\ pc = "idle"
  /\ table = "profiles"
  /\ wantedProfiles = {}
  /\ system = TRUE
  /\ users = <<>>
  /\ idx = 0
  /\ commandOutput = <<>>
  /\ results = <<>>
  /\ fetchStatus = NoStatus
  /\ fds = InitialFds
  /\ pipefd = <<-1, -1>>
  /\ pipebuf = <<>>
  /\ num = 0
  /\ runStatus = NoStatus
  /\ child = NoChild
  /\ visited = <<>>
  /\ rowUser = <<>>
  /\ captured = <<>>
  /\ runs = <<>>

\* ---------------------------------------------------------------- generate

\* generate(request) up to its first runCommand: the branch iterateProfiles
\* takes and the users it will invoke the tool for.
Generate(tbl, wanted, constraints) ==
  /\ pc = "idle"
  /\ table' = tbl
  /\ wantedProfiles' = wanted
  /\ system' = notExistsOrMatches(constraints, "")
  /\ users' = IF system' THEN <<"">> ELSE usersFromContext(constraints, FALSE)
  /\ idx' = 1
  /\ commandOutput' = <<>>
  /\ results' = <<>>
  /\ pc' = IF users' = <<>> THEN "done" ELSE "fork"
  /\ fetchStatus' = IF users' = <<>> THEN Status(0, "OK") ELSE NoStatus
  /\ UNCHANGED <<fds, pipefd, pipebuf, num, runStatus, child, visited,
                 rowUser, captured, runs>>

\* -------------------------------------------------------------- runCommand

\* The lowest descriptor number not in use.
LowestFree(open) ==
  CHOOSE n \in 0..Cardinality(open) :
    n \notin open /\ \A m \in 0..(n - 1) : m \in open

\* pipe(pipefd): the two lowest free descriptors.  The code does not test
\* pipe()'s result; the runs here stay far below the descriptor limit, so
\* pipe() succeeds.
PipeFds(open) ==
  LET r == LowestFree(open) IN <<r, LowestFree(open \cup {r})>>

\* pipe(), then fork() fails: `return Status(1, "fork failed")`.
ForkFail ==
  /\ pc = "fork"
  /\ pipefd' = PipeFds(fds)
  /\ fds' = fds \cup {pipefd'[1], pipefd'[2]}
  /\ child' = NoChild
  /\ pipebuf' = <<>>
  /\ captured' = <<>>
  /\ runStatus' = Status(1, "fork failed")
  /\ pc' = "returned"
  /\ UNCHANGED <<queryVars, fetchVars, commandOutput, num>>

\* pipe(), fork() succeeds, the parent closes the write end.  The child
\* writes its output to the pipe.
ForkOk ==
  /\ pc = "fork"
  /\ pipefd' = PipeFds(fds)
  /\ fds' = (fds \cup {pipefd'[1], pipefd'[2]}) \ {pipefd'[2]}
  /\ child' = [NoChild EXCEPT !.forked = TRUE]
  /\ \E text \in ChildOutputs(users[idx]) : pipebuf' = text
  /\ captured' = <<>>
  /\ runStatus' = NoStatus
  /\ pc' = "read"
  /\ UNCHANGED <<queryVars, fetchVars, commandOutput, num>>

Min(a, b) == IF a < b THEN a ELSE b

\* One pass of the read loop, read() having returned r.
ReadStep(r) ==
  /\ pc = "read"
  /\ num' = ToSizeT(r)
  /\ IF num' <= 0
     THEN /\ pc' = "wait"
          /\ UNCHANGED <<commandOutput, pipebuf, captured>>
     ELSE IF num' > StringMaxSize - Len(commandOutput)
     THEN \* output.append(buffer, num) with a count beyond max_size():
          \* libstdc++, libc++ and MSVC all test the length before they
          \* copy and throw std::length_error, which nothing in this file
          \* catches: the query is abandoned, the child is not reaped.
          /\ pc' = "threw"
          /\ UNCHANGED <<commandOutput, pipebuf, captured>>
     ELSE /\ commandOutput' = commandOutput \o SubSeq(pipebuf, 1, num')
          /\ captured' = captured \o SubSeq(pipebuf, 1, num')
          /\ pipebuf' = SubSeq(pipebuf, num' + 1, Len(pipebuf))
          /\ pc' = "read"
  /\ UNCHANGED <<queryVars, fetchVars, fds, pipefd, runStatus, child>>

\* read() returns data.
ReadData ==
  /\ pipebuf # <<>>
  /\ \E r \in 1..Min(BufSize, Len(pipebuf)) : ReadStep(r)

\* read() returns 0: the pipe is drained and the child has closed its end.
ReadEof ==
  /\ pipebuf = <<>>
  /\ ReadStep(0)

\* read() fails and returns -1.
ReadError == ReadStep(-1)

\* waitpid() fails.
WaitFail ==
  /\ pc = "wait"
  /\ runStatus' = Status(1, "waitpid failed")
  /\ pc' = "returned"
  /\ UNCHANGED <<queryVars, fetchVars, commandOutput, fds, pipefd, pipebuf,
                 num, child, captured>>

\* waitpid() reaps the child.
WaitReaped ==
  /\ pc = "wait"
  /\ \E end \in ChildEnds :
       /\ child' = [child EXCEPT !.reaped = TRUE, !.how = end.how,
                                 !.code = end.code]
       /\ runStatus' = ExitStatus(RawStatus(end))
  /\ pc' = "returned"
  /\ UNCHANGED <<queryVars, fetchVars, commandOutput, fds, pipefd, pipebuf,
                 num, captured>>

\* --------------------------------------------------------- iterateProfiles

\* The loop of iterateProfiles moves to the next user, or the function
\* returns OK.
Advance ==
  IF ~system /\ idx < Len(users)
  THEN /\ idx' = idx + 1
       /\ pc' = "fork"
       /\ fetchStatus' = fetchStatus
  ELSE /\ idx' = idx
       /\ pc' = "done"
       /\ fetchStatus' = Status(0, "OK")

\* runCommand was not ok: nothing is parsed.
SkipUser ==
  /\ pc = "returned"
  /\ ~ok(runStatus)
  /\ runs' = Append(runs, FALSE)
  /\ Advance
  /\ UNCHANGED <<queryVars, commandOutput, results, fds, pipefd, pipebuf,
                 num, runStatus, child, visited, rowUser, captured>>

\* runCommand was ok: parseProfile, the callback on each profile, and the
\* early return when parseProfile is not ok.
ParseUser ==
  /\ pc = "returned"
  /\ ok(runStatus)
  /\ runs' = Append(runs, TRUE)
  /\ LET username == users[idx]
         result == parseProfile(commandOutput, username)
         rows == visitAll(table, wantedProfiles, username, result.profiles)
     IN /\ results' = results \o rows
        /\ rowUser' = rowUser \o [i \in 1..Len(rows) |-> username]
        /\ visited' = visited \o
             [i \in 1..Len(result.profiles) |->
                [username |-> username, idx |-> idx,
                 profile |-> result.profiles[i]]]
        /\ IF ~ok(result.status)
           THEN /\ pc' = "done"
                /\ idx' = idx
                /\ fetchStatus' = result.status
           ELSE Advance
  /\ UNCHANGED <<queryVars, commandOutput, fds, pipefd, pipebuf, num,
                 runStatus, child, captured>>

Next ==
  \/ \E constraints \in ConstraintLists :
       \/ Generate("profiles", {}, constraints)
       \/ \E wanted \in WantedSets : Generate("profile_items", wanted, constraints)
  \/ ForkFail
  \/ ForkOk
  \/ ReadData
  \/ ReadEof
  \/ ReadError
  \/ WaitFail
  \/ WaitReaped
  \/ SkipUser
  \/ ParseUser

Spec == Init /\ [][Next]_vars

\* ------------------------------------------------------------------ claims

\* The text is one document that parses and lacks the root key of `username`.
MissingRoot(text, username) ==
  /\ ~starts_with(text, Sentinel)
  /\ parsePlistContent(text).ok
  /\ parsePlistContent(text).tree.root #
       (IF username # "" THEN username ELSE ComputerLevel)

\* The fetch has not failed (it is running, or returned OK).
NotFailed(status) == status = NoStatus \/ ok(status)

\* The loop goes on to the next resolved user when there is one.
NextUserInvoked ==
  (~system /\ idx < Len(users)) => (pc' = "fork" /\ idx' = idx + 1)

\* C1: when the document handed to parseProfile parses and lacks the expected
\* root key, it contributes no profile and no row, the fetch does not fail
\* because of it, and the next resolved user is still invoked.
C1_MissingRootIsSilent ==
  [][ (pc = "returned" /\ ok(runStatus)
         /\ MissingRoot(commandOutput, users[idx]))
      => (/\ visited' = visited
          /\ results' = results
          /\ NotFailed(fetchStatus')
          /\ NextUserInvoked) ]_vars

\* C2: in a per-user fetch, when the output captured from a user's own
\* invocation (which ran ok) begins with the user-not-found sentinel, the
\* fetch returns an error, no profile of that user is visited and no later
\* user is invoked.
C2_NotFoundStopsFetch ==
  [][ (pc = "returned" /\ ~system /\ ok(runStatus)
         /\ starts_with(captured, Sentinel))
      => (/\ pc' = "done"
          /\ ~ok(fetchStatus')
          /\ visited' = visited) ]_vars

\* The text is one document whose root key is `username`.
OwnDocument(text, username) ==
  /\ Len(text) = 1
  /\ text[1].kind = "doc"
  /\ text[1].root = username

\* The callback calls that visit every profile of `doc` for users[idx].
VisitsOf(doc) ==
  [i \in 1..Len(doc.profiles) |->
     [username |-> users[idx], idx |-> idx, profile |-> doc.profiles[i]]]

\* C3: in a per-user fetch, a user whose runCommand is not ok has no profile
\* visited, does not fail the fetch and does not stop the loop; and a later
\* user whose own invocation is ok and printed its own document has that
\* document's profiles visited.
C3_FailedRunIsSkipped ==
  [][ /\ (pc = "returned" /\ ~system /\ ~ok(runStatus))
         => (/\ visited' = visited
             /\ NotFailed(fetchStatus')
             /\ NextUserInvoked)
      /\ (pc = "returned" /\ ~system /\ ok(runStatus)
            /\ runs # <<>> /\ (\A i \in 1..Len(runs) : ~runs[i])
            /\ OwnDocument(captured, users[idx]))
         => visited' = visited \o VisitsOf(captured[1]) ]_vars

\* C4: every row of profile_items carries the identifier of a visited profile
\* whose identifier (defaulted to "") is in wantedProfiles; an empty
\* wantedProfiles yields no row.
C4_OnlyWantedProfiles ==
  table = "profile_items" =>
    /\ \A i \in 1..Len(results) :
         /\ results[i].profile_identifier \in wantedProfiles
         /\ \E j \in 1..Len(visited) :
              Get(visited[j].profile, "ProfileIdentifier", "")
                = results[i].profile_identifier
    /\ (wantedProfiles = {} => results = <<>>)

\* A profile_items query that emitted rows and visited a profile that has
\* items and whose identifier was not asked for.
C4_Witness ==
  /\ pc = "done"
  /\ table = "profile_items"
  /\ results # <<>>
  /\ \E j \in 1..Len(visited) :
       /\ visited[j].profile.hasProfileItems
       /\ visited[j].profile.ProfileItems # <<>>
       /\ Get(visited[j].profile, "ProfileIdentifier", "") \notin wantedProfiles

\* The columns ProfileItemsTablePlugin::columns declares.
ItemsColumns ==
  {"username", "profile_identifier", "type", "identifier", "display_name",
   "description", "organization", "content"}

\* C5: every row of profile_items has a value for every column of the schema,
\* and its username is the one passed to the callback call that added it.
C5_ItemRowsCarryEveryColumn ==
  table = "profile_items" =>
    \A i \in 1..Len(results) :
      /\ ItemsColumns \subseteq DOMAIN results[i]
      /\ results[i].username = rowUser[i]

\* C6: runCommand returns ok only if the child was forked, reaped, and exited
\* normally with status code 0.
C6_OkOnlyOnExitZero ==
  ok(runStatus) =>
    /\ child.forked
    /\ child.reaped
    /\ child.how = "exit"
    /\ child.code = 0

\* runCommand returned ok with output captured.
C6_Witness ==
  /\ pc = "returned"
  /\ ok(runStatus)
  /\ captured # <<>>

\* C7: in the profiles table the row of each visited profile has verified "1"
\* exactly when ProfileVerificationState is the string "verified", and
\* removal_allowed "0" exactly when ProfileRemovalDisallowed is the string
\* "true"; every other value, an absent key included, gives "0" and "1".
C7_FlagsAreExactMatches ==
  table = "profiles" =>
    /\ Len(results) = Len(visited)
    /\ \A i \in 1..Len(results) :
         /\ results[i].verified =
              (IF visited[i].profile.ProfileVerificationState = "verified"
               THEN "1" ELSE "0")
         /\ results[i].removal_allowed =
              (IF visited[i].profile.ProfileRemovalDisallowed = "true"
               THEN "0" ELSE "1")

\* A profiles query that visited a profile with both flags set and a profile
\* with both flags spelled in another case.
C7_Witness ==
  /\ pc = "done"
  /\ table = "profiles"
  /\ \E i, j \in 1..Len(visited) :
       /\ results[i].verified = "1"
       /\ results[i].removal_allowed = "0"
       /\ visited[j].profile.ProfileVerificationState = "Verified"
       /\ visited[j].profile.ProfileRemovalDisallowed = "True"
       /\ results[j].verified = "0"
       /\ results[j].removal_allowed = "1"

\* C8: the text handed to parseProfile for a user is exactly what was
\* captured from that user's own invocation.
C8_TextIsOwnOutput ==
  (pc = "returned" /\ ok(runStatus)) => commandOutput = captured

\* C9: a read() that returns -1 ends the read loop as end-of-stream does:
\* nothing is appended and the runner goes on to waitpid.
C9_ReadErrorEndsLoop ==
  [][ (pc = "read" /\ num' = ToSizeT(-1))
      => (pc' = "wait" /\ commandOutput' = commandOutput) ]_vars

\* C10: whenever runCommand has returned, the descriptors open in the parent
\* are those open before the first invocation.
C10_NoDescriptorLeft ==
  pc \in {"returned", "fork", "done"} => fds = InitialFds

====
